---- MODULE Spec2Model ----
(***************************************************************************)
(* Model of the Masterfile Filler (src/streamlit_app.py): the mapping      *)
(* reader, the template header index, the sheet filler and the duplicate   *)
(* highlighter, driven by the "Process the Data" handler.                  *)
(*                                                                         *)
(* Text is a sequence of one-character strings, so that strip(), lower(),  *)
(* upper() and the regular expression of _norm_key are computed character  *)
(* by character.  A worksheet is the sparse cell map of openpyxl: a        *)
(* function from the coordinates of the cells that exist to their value    *)
(* and fill; ws.cell(r, c) creates the cell when it does not exist.        *)
(* Cell values and raw values are texts (or None / NaN), on which str() is *)
(* the identity; pandas is taken with object columns, where astype(str)    *)
(* gives "nan" for a missing value.                                        *)
(***************************************************************************)
EXTENDS Integers, Sequences, FiniteSets, TLC

\* ------------------------------------------------------------ bounds
\* Longest mapping file (rows below its header line).
MaxMapRows == 2
\* Most rows of the raw table.
MaxRawRows == 2
\* Last populated row a template's first sheet may have.
MaxTplRow == 4

\* ------------------------------------------------------------ text
UpperChars == <<"A","B","C","D","E","F","G","H","I","J","K","L","M",
                "N","O","P","Q","R","S","T","U","V","W","X","Y","Z">>
LowerChars == <<"a","b","c","d","e","f","g","h","i","j","k","l","m",
                "n","o","p","q","r","s","t","u","v","w","x","y","z">>
Digits == {"0","1","2","3","4","5","6","7","8","9"}
Whitespace == {" "}

\* The two values that are not text: an absent cell value (Python None) and a
\* missing value of a pandas table (NaN).  Neither is a one-character string.
NoneV == <<"<None>">>
NaN == <<"<NaN>">>

Range(f) == {f[x] : x \in DOMAIN f}
MaxOf(S) == CHOOSE m \in S : \A n \in S : n <= m

ToLower == [ch \in Range(UpperChars) |->
              LowerChars[CHOOSE i \in 1..26 : UpperChars[i] = ch]]
ToUpper == [ch \in Range(LowerChars) |->
              UpperChars[CHOOSE i \in 1..26 : LowerChars[i] = ch]]

lower_char(ch) == IF ch \in DOMAIN ToLower THEN ToLower[ch] ELSE ch
upper_char(ch) == IF ch \in DOMAIN ToUpper THEN ToUpper[ch] ELSE ch

lower(s) == [i \in 1..Len(s) |-> lower_char(s[i])]
upper(s) == [i \in 1..Len(s) |-> upper_char(s[i])]

RECURSIVE lstrip(_)
lstrip(s) == IF s # <<>> /\ Head(s) \in Whitespace THEN lstrip(Tail(s)) ELSE s

RECURSIVE rstrip(_)
rstrip(s) ==
  IF s # <<>> /\ s[Len(s)] \in Whitespace
  THEN rstrip(SubSeq(s, 1, Len(s) - 1))
  ELSE s

strip(s) == rstrip(lstrip(s))

AlnumLower == Range(LowerChars) \cup Digits
IsAlnumLower(ch) == ch \in AlnumLower

\* re.sub(r"[^a-z0-9]+", "", str(s).strip().lower())
_norm_key(s) == SelectSeq(lower(strip(s)), IsAlnumLower)

\* pd.isna(val)
isna(v) == v = NaN \/ v = NoneV

\* Series.astype(str): a missing value becomes the text "nan".
astype_str(v) == IF v = NaN THEN <<"n","a","n">> ELSE v

\* ------------------------------------------------------------ texts used
T_PartnerSKU == <<"P","a","r","t","n","e","r"," ","S","K","U">>
T_partner_sku == <<"p","a","r","t","n","e","r","_","s","k","u">>
T_Barcode == <<"B","a","r","c","o","d","e">>
T_Title == <<"T","i","t","l","e">>
T_Hash == <<"#">>
T_Blank == <<" ">>
EmptyStr == <<>>

\* header_labels of the call at the end of fill_first_sheet_by_headers
HeaderLabels == <<T_PartnerSKU, T_Barcode>>

\* PatternFill(start_color="FFFF00", ...)
dup_fill == "FFFF00"

\* ------------------------------------------------------------ worksheets
Cell(v, f) == [value |-> v, fill |-> f]
DefaultCell == Cell(NoneV, "none")

\* What a reader of the sheet sees at (r, c), whether or not the cell exists.
CellAt(cells, r, c) ==
  IF <<r, c>> \in DOMAIN cells THEN cells[<<r, c>>] ELSE DefaultCell

\* ws.max_row / ws.max_column: the largest coordinate of an existing cell
max_row(cells) ==
  IF DOMAIN cells = {} THEN 1 ELSE MaxOf({p[1] : p \in DOMAIN cells})
max_column(cells) ==
  IF DOMAIN cells = {} THEN 1 ELSE MaxOf({p[2] : p \in DOMAIN cells})

\* ws.cell(row=r, column=c): get the cell, creating it when absent
get_cell(cells, r, c) ==
  IF <<r, c>> \in DOMAIN cells THEN cells ELSE cells @@ (<<r, c>> :> DefaultCell)

\* ws.cell(row=r, column=c, value=v): openpyxl assigns unless v is None
set_value(cells, r, c, v) ==
  IF v = NoneV
  THEN get_cell(cells, r, c)
  ELSE [get_cell(cells, r, c) EXCEPT ![<<r, c>>].value = v]

\* ws.cell(row=r, column=c).fill = f
set_fill(cells, r, c, f) ==
  [get_cell(cells, r, c) EXCEPT ![<<r, c>>].fill = f]

EmptyMap == [k \in {} |-> 0]

\* ------------------------------------------------------------ read_two_col_mapping
\* The mapping file as pandas reads it, its two role columns found: a sequence
\* of rows [template_header, raw_header], each a text or NaN (an empty cell).
mapping_strip(m) ==
  [i \in 1..Len(m) |->
     [template_header |-> strip(astype_str(m[i].template_header)),
      raw_header      |-> strip(astype_str(m[i].raw_header))]]

mapping_nonempty(e) == e.template_header # EmptyStr /\ e.raw_header # EmptyStr

\* DataFrame.drop_duplicates(subset=["template_header"]): the rows whose
\* template_header no earlier row has, compared as the strings they are
drop_duplicates(rows) ==
  LET keep(i) == \A j \in 1..(i - 1) :
                   rows[j].template_header # rows[i].template_header
      RECURSIVE go(_)
      go(i) == IF i > Len(rows) THEN <<>>
               ELSE IF keep(i) THEN <<rows[i]>> \o go(i + 1) ELSE go(i + 1)
  IN go(1)

read_two_col_mapping(m) ==
  IF m = <<>> THEN <<>>
  ELSE drop_duplicates(SelectSeq(mapping_strip(m), mapping_nonempty))

\* ------------------------------------------------------------ build_header_index_first_sheet
\* `if key and key not in headers`
HeaderKeyAnyNew(key, h) == key \notin DOMAIN h

header_key_ok(key, h) == key # EmptyStr /\ key \notin DOMAIN h

RECURSIVE headers_up_to(_, _)
\* the dict `headers` after the loop has visited columns 1..c
headers_up_to(cells, c) ==
  IF c = 0 THEN EmptyMap
  ELSE LET h == headers_up_to(cells, c - 1)
           v == CellAt(cells, 1, c).value
       IN IF v = NoneV THEN h
          ELSE IF header_key_ok(_norm_key(v), h)
               THEN h @@ (_norm_key(v) :> c)
               ELSE h

build_header_index_first_sheet(cells) == headers_up_to(cells, max_column(cells))

\* the sheet after the scan: ws.cell created every cell of row 1 it read
header_scan_cells(cells) ==
  LET RECURSIVE go(_, _)
      go(cs, c) == IF c > max_column(cells) THEN cs
                   ELSE go(get_cell(cs, 1, c), c + 1)
  IN go(cells, 1)

\* ------------------------------------------------------------ fill_first_sheet_by_headers
\* raw_norm = {c.strip().lower(): c for c in raw_df.columns}, then .get(key):
\* a later column replaces an earlier one with the same key
raw_norm_get(columns, key) ==
  LET hits == {i \in 1..Len(columns) : lower(strip(columns[i])) = key}
  IN IF hits = {} THEN NoneV ELSE columns[MaxOf(hits)]

\* tpl_header_to_col.get(key)
header_get(h, key) == IF key \in DOMAIN h THEN h[key] ELSE 0

\* One turn of the loop over mapping_df.iterrows(): the source is looked up
\* first, and an entry without one is recorded and left (continue) before the
\* target is looked at.
PairsStepNoTplWarning(acc, r, columns, h) ==
  LET raw_col_name == raw_norm_get(columns, lower(strip(r.raw_header)))
      col_idx == header_get(h, _norm_key(r.template_header))
  IN IF raw_col_name = NoneV
     THEN [acc EXCEPT !.missing_raw = Append(@, r.raw_header)]
     ELSE IF col_idx = 0
     THEN acc
     ELSE [acc EXCEPT !.pairs = Append(@, [raw |-> raw_col_name, col |-> col_idx])]

pairs_step(acc, r, columns, h) ==
  LET raw_col_name == raw_norm_get(columns, lower(strip(r.raw_header)))
      col_idx == header_get(h, _norm_key(r.template_header))
  IN IF raw_col_name = NoneV
     THEN [acc EXCEPT !.missing_raw = Append(@, r.raw_header)]
     ELSE IF col_idx = 0
     THEN [acc EXCEPT !.missing_tpl = Append(@, r.template_header)]
     ELSE [acc EXCEPT !.pairs = Append(@, [raw |-> raw_col_name, col |-> col_idx])]

RECURSIVE build_pairs(_, _, _, _)
\* pairs, missing_raw and missing_tpl after the first n entries of mapping_df
build_pairs(mdf, n, columns, h) ==
  IF n = 0
  THEN [pairs |-> <<>>, missing_raw |-> <<>>, missing_tpl |-> <<>>]
  ELSE pairs_step(build_pairs(mdf, n - 1, columns, h), mdf[n], columns, h)

\* the st.warning calls after the loop: the template headers first, each
\* message the sorted set of the names collected
warning_messages(mtpl, mraw) ==
  (IF mtpl # <<>> THEN <<[kind |-> "template headers not found", names |-> Range(mtpl)]>>
   ELSE <<>>)
  \o (IF mraw # <<>> THEN <<[kind |-> "raw columns missing", names |-> Range(mraw)]>>
      ELSE <<>>)

\* raw_row[raw_col_name]
raw_value(raw, i, name) ==
  raw.rows[i][CHOOSE k \in 1..Len(raw.columns) : raw.columns[k] = name]

\* ("" if pd.isna(val) else val)
written_value(val) == IF isna(val) THEN EmptyStr ELSE val

\* start_row = 3; out_row = start_row + i, i counted from 0
start_row == 3
OutRowFromTwo(i) == 2 + i

out_row(i) == start_row + i

\* The sheet after the write loop has handled the first k pairs of raw row
\* number i (0-based) and every pair of the rows before it.
RECURSIVE write_upto(_, _, _, _, _)
write_upto(cells, raw, prs, i, k) ==
  IF i < 0 THEN cells
  ELSE IF k = 0 THEN write_upto(cells, raw, prs, i - 1, Len(prs))
  ELSE set_value(write_upto(cells, raw, prs, i, k - 1),
                 out_row(i), prs[k].col,
                 written_value(raw_value(raw, i + 1, prs[k].raw)))

write_rows(cells, raw, prs) ==
  write_upto(cells, raw, prs, Len(raw.rows) - 1, Len(prs))

\* the coordinates the write loop assigns a value to
write_coords(raw, prs) ==
  {<<out_row(i), prs[k].col>> : i \in 0..(Len(raw.rows) - 1), k \in 1..Len(prs)}

\* ------------------------------------------------------------ _highlight_duplicates
\* a cell the scan counts: `v is None` and `not s` both skip it
counted(cells, r, c) ==
  /\ CellAt(cells, r, c).value # NoneV
  /\ strip(CellAt(cells, r, c).value) # EmptyStr

\* k = s.upper()
DupKeyCaseSensitive(cells, r, c) == strip(CellAt(cells, r, c).value)

dup_key(cells, r, c) == upper(strip(CellAt(cells, r, c).value))

\* counts[k] after the first loop over start_row..max_row
dup_count(cells, c, k) ==
  Cardinality({r \in start_row..max_row(cells) :
                 counted(cells, r, c) /\ dup_key(cells, r, c) = k})

\* `counts.get(s.upper(), 0) > 1`
IsDupFromOne(n) == n > 0

is_dup(n) == n > 1

\* the rows of column c whose cell the second loop fills
dup_rows(cells, c) ==
  {r \in start_row..max_row(cells) :
     counted(cells, r, c) /\ is_dup(dup_count(cells, c, dup_key(cells, r, c)))}

RECURSIVE fill_rows(_, _, _, _)
fill_rows(cells, c, rows, r) ==
  IF r < start_row THEN cells
  ELSE LET before == fill_rows(cells, c, rows, r - 1)
       IN IF r \in rows THEN set_fill(before, r, c, dup_fill)
                        ELSE get_cell(before, r, c)

\* the column a label resolves to: header_map.get(_norm_key(hdr)), 0 when absent
label_col(h, hdr) == header_get(h, _norm_key(hdr))

\* the body of the loop for one label
highlight_one(cells, h, hdr) ==
  IF label_col(h, hdr) = 0 THEN cells
  ELSE fill_rows(cells, label_col(h, hdr),
                 dup_rows(cells, label_col(h, hdr)), max_row(cells))

\* the coordinates whose fill the loop for one label assigns
highlight_one_coords(cells, h, hdr) ==
  IF label_col(h, hdr) = 0 THEN {}
  ELSE {<<r, label_col(h, hdr)>> : r \in dup_rows(cells, label_col(h, hdr))}

RECURSIVE highlight_upto(_, _, _, _)
\* the sheet after the first n labels
highlight_upto(cells, h, labels, n) ==
  IF n = 0 THEN cells
  ELSE highlight_one(highlight_upto(cells, h, labels, n - 1), h, labels[n])

_highlight_duplicates(cells, h, labels) ==
  highlight_upto(cells, h, labels, Len(labels))

highlight_coords(cells, h, labels) ==
  UNION {highlight_one_coords(highlight_upto(cells, h, labels, n - 1), h, labels[n]) :
           n \in 1..Len(labels)}

\* ------------------------------------------------------------ inputs
SeqsUpTo(S, lo, hi) == UNION {[1..k -> S] : k \in lo..hi}

\* Row 1 of the first sheet of the templates tried: three columns, NoneV an
\* empty cell.
TemplateHeaderRows ==
  { <<T_PartnerSKU, T_Barcode, T_Title>>,
    <<T_Title, T_partner_sku, T_PartnerSKU>>,
    <<T_Barcode, NoneV, T_Title>>,
    <<NoneV, T_Hash, NoneV>>,
    <<NoneV, NoneV, NoneV>> }

DigitSeq == <<"0","1","2","3","4","5","6","7","8","9">>

\* What a template holds below row 1: column 1 repeats one value in two
\* spellings, column 2 has a whitespace-only cell, column 3 never repeats.
BodyValue(r, c) ==
  CASE c = 1 -> IF r % 2 = 0 THEN <<"x">> ELSE <<"X"," ">>
    [] c = 2 -> IF r = 3 THEN <<" ">> ELSE <<"y">>
    [] OTHER -> <<"u", DigitSeq[(r % 10) + 1]>>

\* the first sheet with header row hdr, rows 2..n filled and styled
FirstSheet(hdr, n) ==
  LET coords == {<<1, c>> : c \in {k \in 1..Len(hdr) : hdr[k] # NoneV}}
                \cup {<<r, c>> : r \in 2..n, c \in 1..Len(hdr)}
  IN [name |-> "Master",
      cells |-> [p \in coords |->
                   IF p[1] = 1 THEN Cell(hdr[p[2]], "grey")
                   ELSE Cell(BodyValue(p[1], p[2]), "blue")]]

\* a second sheet, with a header and a repeated value of its own
SecondSheet ==
  [name |-> "Lists",
   cells |-> (<<1, 1>> :> Cell(T_PartnerSKU, "grey"))
             @@ (<<3, 1>> :> Cell(<<"x">>, "none"))
             @@ (<<4, 1>> :> Cell(<<"x">>, "blue"))]

Templates ==
  { <<FirstSheet(hdr, n), SecondSheet>> : hdr \in TemplateHeaderRows, n \in 1..MaxTplRow }

MapRow(t, r) == [template_header |-> t, raw_header |-> r]

\* rows a mapping file may hold
MappingRowPool ==
  { MapRow(T_PartnerSKU, <<"a">>),
    MapRow(T_partner_sku, <<" ","B">>),
    MapRow(T_Barcode, <<"b">>),
    MapRow(T_Barcode, NaN),
    MapRow(T_Blank, <<"a">>) }

MappingFiles == SeqsUpTo(MappingRowPool, 0, MaxMapRows)

RawColumns == << <<"A">>, <<"b">> >>

RawRowPool == { << <<"X">>, NaN >>, << <<"x"," ">>, <<"y">> >> }

\* `not raw_df.empty` is a condition of can_process
RawTables ==
  { [columns |-> RawColumns, rows |-> rs] : rs \in SeqsUpTo(RawRowPool, 1, MaxRawRows) }

\* ------------------------------------------------------------ state
VARIABLES
  template,          \* st.session_state.template_bytes, as the workbook it holds
  mapping_file,      \* the uploaded mapping file
  raw_df,            \* st.session_state.raw_df
  pc,                \* where the handler of "Process the Data" is
  mapping_df,        \* read_two_col_mapping's result
  wb,                \* the workbook loaded by fill_first_sheet_by_headers
  tpl_header_to_col,
  pairs, missing_raw, missing_tpl,
  warnings,          \* the st.warning messages shown, in order
  written,           \* <<sheet, row, column>> of every value assignment made
  highlighted,       \* <<sheet, row, column>> of every fill assignment made
  out_bytes,         \* the serialized workbook, <<>> while there is none
  ui                 \* what the page shows for this click

vars == <<template, mapping_file, raw_df, pc, mapping_df, wb, tpl_header_to_col,
          pairs, missing_raw, missing_tpl, warnings, written, highlighted,
          out_bytes, ui>>

inputs == <<template, mapping_file, raw_df>>

\* wb.worksheets[0]
WsIndexSecond == 1 + 1

ws_index == 1

ws == wb[ws_index].cells

Init ==
  /\ template \in Templates
  /\ mapping_file \in MappingFiles
  /\ raw_df \in RawTables
  /\ pc = "ready"
  /\ mapping_df = <<>>
  /\ wb = <<>>
  /\ tpl_header_to_col = EmptyMap
  /\ pairs = <<>>
  /\ missing_raw = <<>>
  /\ missing_tpl = <<>>
  /\ warnings = <<>>
  /\ written = {}
  /\ highlighted = {}
  /\ out_bytes = <<>>
  /\ ui = "none"

\* The button is pressed: mapping_df = read_two_col_mapping(mapping_file), and
\* an empty mapping ends the click with an error.
Process ==
  /\ pc = "ready"
  /\ mapping_df' = read_two_col_mapping(mapping_file)
  /\ IF mapping_df' = <<>>
     THEN pc' = "done" /\ ui' = "error: mapping is empty or invalid"
     ELSE pc' = "load" /\ ui' = ui
  /\ UNCHANGED <<inputs, wb, tpl_header_to_col, pairs, missing_raw, missing_tpl,
                 warnings, written, highlighted, out_bytes>>

\* load_workbook, ws = wb.worksheets[0], the header index, and the ValueError
\* when the index is empty (the handler shows it with st.exception).
LoadAndIndex ==
  /\ pc = "load"
  /\ wb' = [template EXCEPT ![ws_index].cells = header_scan_cells(@)]
  /\ tpl_header_to_col' = build_header_index_first_sheet(template[ws_index].cells)
  /\ IF tpl_header_to_col' = EmptyMap
     THEN pc' = "done" /\ ui' = "exception: no headers found"
     ELSE pc' = "pairs" /\ ui' = ui
  /\ UNCHANGED <<inputs, mapping_df, pairs, missing_raw, missing_tpl,
                 warnings, written, highlighted, out_bytes>>

\* the loop over mapping_df.iterrows()
BuildPairs ==
  /\ pc = "pairs"
  /\ LET res == build_pairs(mapping_df, Len(mapping_df), raw_df.columns, tpl_header_to_col)
     IN /\ pairs' = res.pairs
        /\ missing_raw' = res.missing_raw
        /\ missing_tpl' = res.missing_tpl
        /\ warnings' = warning_messages(res.missing_tpl, res.missing_raw)
  /\ pc' = "write"
  /\ UNCHANGED <<inputs, mapping_df, wb, tpl_header_to_col, written, highlighted,
                 out_bytes, ui>>

\* the loop over raw_df.iterrows()
WriteRows ==
  /\ pc = "write"
  /\ wb' = [wb EXCEPT ![ws_index].cells = write_rows(@, raw_df, pairs)]
  /\ written' = written \cup {<<ws_index, p[1], p[2]>> : p \in write_coords(raw_df, pairs)}
  /\ pc' = "highlight"
  /\ UNCHANGED <<inputs, mapping_df, tpl_header_to_col, pairs, missing_raw, missing_tpl,
                 warnings, highlighted, out_bytes, ui>>

\* _highlight_duplicates(ws, tpl_header_to_col, ["Partner SKU", "Barcode"], start_row)
Highlight ==
  /\ pc = "highlight"
  /\ wb' = [wb EXCEPT ![ws_index].cells =
                         _highlight_duplicates(@, tpl_header_to_col, HeaderLabels)]
  /\ highlighted' = highlighted \cup
       {<<ws_index, p[1], p[2]>> : p \in highlight_coords(ws, tpl_header_to_col, HeaderLabels)}
  /\ pc' = "save"
  /\ UNCHANGED <<inputs, mapping_df, tpl_header_to_col, pairs, missing_raw, missing_tpl,
                 warnings, written, out_bytes, ui>>

\* wb.save(out); the handler then shows the download button
SaveAndOffer ==
  /\ pc = "save"
  /\ out_bytes' = wb
  /\ ui' = "download"
  /\ pc' = "done"
  /\ UNCHANGED <<inputs, mapping_df, wb, tpl_header_to_col, pairs, missing_raw, missing_tpl,
                 warnings, written, highlighted>>

Next == Process \/ LoadAndIndex \/ BuildPairs \/ WriteRows \/ Highlight \/ SaveAndOffer

Spec == Init /\ [][Next]_vars

\* ------------------------------------------------------------ properties
\* What the properties say of the sheets they compare.
FirstIn == template[1].cells
FirstWb == wb[1].cells
CoordsSeen == DOMAIN FirstIn \cup DOMAIN FirstWb
PairsBuilt == pc \in {"write", "highlight", "save"} \/ ui = "download"
RowsWritten == pc \in {"highlight", "save"} \/ ui = "download"
HighlightDone == pc = "save" \/ ui = "download"
NRaw == Len(raw_df.rows)
ActiveCols == {pairs[k].col : k \in 1..Len(pairs)}
Outside(p) == ~(p[2] \in ActiveCols /\ p[1] \in 3..(2 + NRaw))

\* "Partner SKU" and "Barcode" as the normalizer is documented to give them
LabelKeys == << <<"p","a","r","t","n","e","r","s","k","u">>,
                <<"b","a","r","c","o","d","e">> >>

\* the key of every header cell of row 1 of the template, by column
TemplateKeys ==
  [c \in {q[2] : q \in {x \in DOMAIN FirstIn : x[1] = 1 /\ FirstIn[x].value # NoneV}}
     |-> _norm_key(FirstIn[<<1, c>>].value)]

\* the column a key resolves to: the first one that has it, 0 when none has
KeyCol(keys, key) ==
  LET cols == {c \in DOMAIN keys : keys[c] = key}
  IN IF cols = {} \/ key = EmptyStr THEN 0
     ELSE CHOOSE c \in cols : \A d \in cols : c <= d

LabelColsOf(keys) == {KeyCol(keys, LabelKeys[n]) : n \in 1..Len(LabelKeys)} \ {0}
LabelCols == LabelColsOf(TemplateKeys)

LastRow == MaxOf({1} \cup {p[1] : p \in DOMAIN FirstWb})

Trimmed(r, c) == strip(CellAt(FirstWb, r, c).value)
NonBlank(r, c) == CellAt(FirstWb, r, c).value # NoneV /\ Trimmed(r, c) # EmptyStr

\* the trimmed, lower-cased value of every non-blank cell of rows 3..LastRow
\* of column c
Folded(c) ==
  [r \in {x \in 3..LastRow : NonBlank(x, c)} |-> lower(Trimmed(r, c))]

\* the value at row r is non-blank and another row of 3..LastRow holds it too,
\* letter case aside
RepeatedIn(folded, r) ==
  r \in DOMAIN folded /\ \E r2 \in DOMAIN folded : r2 # r /\ folded[r2] = folded[r]

TargetResolves(keys, e) == KeyCol(keys, _norm_key(e.template_header)) # 0
SourceResolves(e) ==
  \E k \in 1..Len(raw_df.columns) :
     lower(strip(raw_df.columns[k])) = lower(strip(e.raw_header))

\* C1: rows 1 and 2 of the first sheet keep the value and the fill the template
\* gave them, no value or highlight is ever assigned above row 3, and the value
\* writes begin at row 3.
C1_RowsOneAndTwoKept ==
  wb # <<>> =>
    /\ \A p \in CoordsSeen :
         p[1] \in {1, 2} => CellAt(FirstWb, p[1], p[2]) = CellAt(FirstIn, p[1], p[2])
    /\ \A w \in written \cup highlighted : w[2] >= 3
    /\ written # {} => \E w \in written : w[2] = 3
    /\ out_bytes # <<>> => out_bytes = wb

C1_Witness ==
  /\ ui = "download"
  /\ written # {} /\ highlighted # {}
  /\ \E p \in DOMAIN FirstIn : p[1] = 2 /\ FirstIn[p].fill = "blue"

\* C2: every sheet after the first is, name, position and cells, what the
\* template holds; values and highlights are assigned on the first sheet only.
C2_OtherSheetsKept ==
  wb # <<>> =>
    /\ Len(wb) = Len(template)
    /\ wb[1].name = template[1].name
    /\ \A k \in 2..Len(template) : wb[k] = template[k]
    /\ \A w \in written \cup highlighted : w[1] = 1
    /\ out_bytes # <<>> => \A k \in 2..Len(template) : out_bytes[k] = template[k]

C2_Witness ==
  /\ out_bytes # <<>>
  /\ Len(template) >= 2
  /\ \E w \in written : w[1] = 1
  /\ \E w \in highlighted : w[1] = 1
  /\ out_bytes[1] # template[1]

\* C3 as claimed: a cell of the first sheet outside (active column) x (rows
\* 3..2+number of raw rows) has the value and the fill of the template.
C3_OutsideCellsUntouched ==
  HighlightDone =>
    \A p \in CoordsSeen :
      Outside(p) => CellAt(FirstWb, p[1], p[2]) = CellAt(FirstIn, p[1], p[2])

\* C3 as amended: such a cell keeps its value; it keeps its fill too unless it
\* lies in row 3 or below of a column Partner SKU or Barcode resolves to and
\* its value is repeated there, and then its fill is the duplicate highlight.
C3_OutsideValuesKept ==
  wb # <<>> =>
    LET labelcols == LabelCols
        folded == [c \in labelcols |-> Folded(c)]
    IN \A p \in CoordsSeen :
         Outside(p) =>
           /\ CellAt(FirstWb, p[1], p[2]).value = CellAt(FirstIn, p[1], p[2]).value
           /\ \/ CellAt(FirstWb, p[1], p[2]).fill = CellAt(FirstIn, p[1], p[2]).fill
              \/ /\ HighlightDone
                 /\ CellAt(FirstWb, p[1], p[2]).fill = dup_fill
                 /\ p[1] >= 3 /\ p[2] \in labelcols
                 /\ RepeatedIn(folded[p[2]], p[1])

C3_Witness ==
  /\ ui = "download"
  /\ pairs # <<>>
  /\ \E p \in CoordsSeen :
       /\ Outside(p) /\ p[1] > 2 + NRaw
       /\ CellAt(FirstWb, p[1], p[2]).fill = dup_fill
       /\ CellAt(FirstIn, p[1], p[2]).fill = "blue"
  /\ \E p \in DOMAIN FirstIn :
       Outside(p) /\ p[1] >= 3 /\ CellAt(FirstWb, p[1], p[2]).fill = "blue"

\* C4 as claimed: every entry whose target header matches no header of row 1
\* is listed in missing_tpl, its source column present or not.
C4_UnmatchedTargetAlwaysListed ==
  PairsBuilt =>
    LET keys == TemplateKeys
    IN \A i \in 1..Len(mapping_df) :
         ~TargetResolves(keys, mapping_df[i]) =>
           mapping_df[i].template_header \in Range(missing_tpl)

\* C4 as amended: such an entry is listed in missing_tpl when its source
\* column is in the raw table, and in missing_raw only when it is not; in
\* both cases it gives no active pair and no cell is written for it.
C4_UnmatchedTargetListedOrSourceMissing ==
  PairsBuilt =>
    LET keys == TemplateKeys
        tgt == [i \in 1..Len(mapping_df) |-> KeyCol(keys, _norm_key(mapping_df[i].template_header))]
        src == [i \in 1..Len(mapping_df) |-> SourceResolves(mapping_df[i])]
    IN /\ \A i \in 1..Len(mapping_df) :
            tgt[i] = 0 =>
              IF src[i]
              THEN mapping_df[i].template_header \in Range(missing_tpl)
              ELSE mapping_df[i].raw_header \in Range(missing_raw)
       /\ Len(pairs) = Cardinality({i \in 1..Len(mapping_df) : tgt[i] # 0 /\ src[i]})
       /\ Len(missing_tpl) = Cardinality({i \in 1..Len(mapping_df) : tgt[i] = 0 /\ src[i]})
       /\ \A w \in written : w[3] \in Range(tgt) \ {0}
       /\ \A i \in 1..Len(mapping_df) :
            (tgt[i] = 0 /\ src[i]) =>
              \E n \in 1..Len(warnings) :
                /\ warnings[n].kind = "template headers not found"
                /\ mapping_df[i].template_header \in warnings[n].names

C4_Witness ==
  /\ ui = "download"
  /\ written # {}
  /\ LET keys == TemplateKeys
     IN /\ \E i \in 1..Len(mapping_df) :
             /\ ~TargetResolves(keys, mapping_df[i]) /\ SourceResolves(mapping_df[i])
             /\ mapping_df[i].template_header \in Range(missing_tpl)
        /\ \E i \in 1..Len(mapping_df) :
             /\ TargetResolves(keys, mapping_df[i]) /\ SourceResolves(mapping_df[i])

\* C5: once the rows are written, no two entries of the resolved mapping have
\* the same target header under the normalizer, no two active pairs have the
\* same column, and every written column holds the values of the source
\* column of the first entry, in file order, that targets it.
C5_FirstMappingWinsPerTarget ==
  RowsWritten =>
    LET keys == TemplateKeys
        tgt == [n \in 1..Len(mapping_df) |-> KeyCol(keys, _norm_key(mapping_df[n].template_header))]
        first(c) == CHOOSE n \in 1..Len(mapping_df) :
                      /\ tgt[n] = c /\ SourceResolves(mapping_df[n])
                      /\ \A m \in 1..(n - 1) : ~(tgt[m] = c /\ SourceResolves(mapping_df[m]))
        source(c) == CHOOSE k \in 1..Len(raw_df.columns) :
                       lower(strip(raw_df.columns[k])) = lower(strip(mapping_df[first(c)].raw_header))
    IN /\ \A i, j \in 1..Len(mapping_df) :
            i < j => _norm_key(mapping_df[i].template_header)
                       # _norm_key(mapping_df[j].template_header)
       /\ \A k, l \in 1..Len(pairs) : k < l => pairs[k].col # pairs[l].col
       /\ \A c \in ActiveCols : \A i \in 1..NRaw :
            CellAt(FirstWb, 2 + i, c).value
              = (IF raw_df.rows[i][source(c)] = NaN THEN EmptyStr
                 ELSE raw_df.rows[i][source(c)])

\* row 1 of the template's first sheet yields no header: every cell is empty
\* or has the empty key
NoHeaderInRowOne ==
  \A p \in DOMAIN FirstIn :
    p[1] = 1 => FirstIn[p].value = NoneV \/ _norm_key(FirstIn[p].value) = EmptyStr

\* C6: a template whose row 1 gives no header ends the click with the
\* ValueError: nothing is written or highlighted, no workbook is serialized
\* and no download is offered.
C6_NoHeadersNoOutput ==
  NoHeaderInRowOne =>
    /\ written = {} /\ highlighted = {}
    /\ out_bytes = <<>>
    /\ ui # "download"
    /\ pc \in {"ready", "load", "done"}
    /\ pairs = <<>>
    /\ (pc = "done" /\ mapping_df # <<>>) => ui = "exception: no headers found"
    /\ wb # <<>> => \A p \in CoordsSeen :
                      CellAt(FirstWb, p[1], p[2]) = CellAt(FirstIn, p[1], p[2])

C6_Witness ==
  /\ NoHeaderInRowOne
  /\ \E p \in DOMAIN FirstIn : p[1] = 1 /\ FirstIn[p].value # NoneV
  /\ pc = "done" /\ ui = "exception: no headers found"

\* C7: once the highlighter has run, a cell of rows 3..last populated row of a
\* column that Partner SKU or Barcode resolves to was given the highlight
\* exactly when its trimmed value is non-empty and repeated in that range,
\* letter case aside; nothing else was highlighted, and a label that resolves
\* to no column raised nothing.
C7_HighlightIffRepeated ==
  HighlightDone =>
    LET labelcols == LabelCols
        folded == [c \in labelcols |-> Folded(c)]
    IN /\ \A c \in labelcols : \A r \in 3..LastRow :
            (<<1, r, c>> \in highlighted) <=> RepeatedIn(folded[c], r)
       /\ \A w \in highlighted :
            /\ w[3] \in labelcols /\ w[2] \in 3..LastRow
            /\ CellAt(FirstWb, w[2], w[3]).fill = dup_fill
       /\ ui \in {"none", "download"}
       /\ warnings = warning_messages(missing_tpl, missing_raw)

C7_Witness ==
  /\ ui = "download"
  /\ \E c \in LabelCols :
       /\ \E r \in 3..LastRow : <<1, r, c>> \in highlighted /\ <<1, r, c>> \notin written
       /\ \E r \in 3..LastRow : <<1, r, c>> \in highlighted /\ <<1, r, c>> \in written
  /\ \E c \in LabelCols : \E r \in 3..LastRow :
       /\ <<1, r, c>> \notin highlighted
       /\ CellAt(FirstWb, r, c).value # NoneV /\ ~NonBlank(r, c)

\* C8: after the write loop, for every active pair and every raw row whose
\* value in the pair's source column is missing, the target cell holds "".
C8_BlankRawWritesEmptyString ==
  RowsWritten =>
    \A k \in 1..Len(pairs) : \A i \in 1..NRaw :
      isna(raw_value(raw_df, i, pairs[k].raw)) =>
        CellAt(FirstWb, 2 + i, pairs[k].col).value = EmptyStr

\* C9: every entry of the resolved mapping comes from a file row neither of
\* whose cells is empty or whitespace only.
C9_BlankMappingRowsDropped ==
  \A n \in 1..Len(mapping_df) :
    \E i \in 1..Len(mapping_file) :
      /\ mapping_file[i].template_header # NaN /\ mapping_file[i].raw_header # NaN
      /\ strip(mapping_file[i].template_header) = mapping_df[n].template_header
      /\ strip(mapping_file[i].raw_header) = mapping_df[n].raw_header
      /\ mapping_df[n].template_header # EmptyStr /\ mapping_df[n].raw_header # EmptyStr

\* C10: after the write loop, row 3 + i of every active pair's column holds raw
\* row i's value of the pair's source column, and the rows written are exactly
\* 3 .. 2 + number of raw rows.
C10_OneRowPerRawRow ==
  RowsWritten =>
    /\ \A k \in 1..Len(pairs) : \A i \in 1..NRaw :
         CellAt(FirstWb, 2 + i, pairs[k].col).value
           = (IF raw_value(raw_df, i, pairs[k].raw) = NaN THEN EmptyStr
              ELSE raw_value(raw_df, i, pairs[k].raw))
    /\ pairs # <<>> => {w[2] : w \in written} = 3..(2 + NRaw)

====
